---- MODULE Spec2Model ----
(***************************************************************************)
(* State-machine model of MA_CB_RP_Major.forward, the multi-agent rollout  *)
(* of off_magent_model.py: the per-instance decision queue, the candidate  *)
(* and activity masks, the boarding-slice broadcast and the tick loop.     *)
(*                                                                         *)
(* Tensors are abstracted per (agent, instance):                           *)
(*   - a candidate / activity mask row is the set of stations whose entry  *)
(*     is 1;                                                               *)
(*   - a dynamic tensor is the record [board, ch5, ch7, ch10]: board is    *)
(*     the slice [1:4, 0:len(up_station)], ch5 / ch7 / ch10 are the        *)
(*     channels the scheduler reads and writes;                            *)
(*   - a dynamic encoding is identified by the tensor it was computed      *)
(*     from;                                                               *)
(*   - a log-probability is 0 when the masked softmax has a single open    *)
(*     station (probability 1) and a negative number otherwise.            *)
(* The collaborators update_od, update_tw, update_fn, mask_fn, mask_start  *)
(* are constructor arguments: their results are drawn from small sets.     *)
(* The rollout is preceded by the constructor's validation of its          *)
(* arguments.                                                              *)
(***************************************************************************)
EXTENDS Integers, Sequences, FiniteSets, TLC

\* ------------------------------------------------------------------ sizes
\* Number of hand-written agent slots (dynamic1..dynamic10, mask1..mask10).
NSlots == 10
\* Rows of the time-window mask.
TwRows == 3
\* Step cap used when mask_fn is provided (1000 in the source).
StepCap == 2
\* batch_size, sequence_size and len(up_station) of the inputs.
Batch == 2
SeqSize == 4
LenUp == 3
\* Largest scheduled time an input or a collaborator produces.
MaxTime == 1

Slots == 1..NSlots
Instances == 1..Batch
Stations == 0..(SeqSize - 1)
Times == 0..MaxTime

VARIABLES
    agent_number,       \* self.agent_number
    training,           \* self.training
    mask_fn_given,      \* self.mask_fn is not None
    update_fn_given,    \* self.update_fn is not None
    stub,               \* which collaborator results are explored
    dynamic_size,       \* the constructor's dynamic_size argument
    submodules,         \* the encoders, decoders and pointers were created
    decision_list,      \* per instance: list of <<scheduled_time, agent_id>>
    cy_decision_list,   \* the deep copy taken at the start of the tick
    decision_mask_dict, \* agent -> instance -> 0/1 scheduling indicator
    decision_agent_id,  \* agents that run a policy step this tick
    mask,               \* mask1..mask10
    agent_mask,         \* agent_mask1..agent_mask10
    dynamic_k,          \* dynamic1..dynamic10
    dynamic,            \* the list `dynamic` (input clone, then update_od's result)
    dynamic_hidden,     \* dynamic_hidden1..dynamic_hidden10
    decoder_input,      \* decoder_input1..decoder_input10
    tw_mask,
    record,             \* record1..record3: which call produced them
    tour_idx,
    tour_logp,
    tour_idx_dict,
    step,               \* iterations of the tick loop completed
    pc,                 \* position in forward
    ag_id,              \* loop variable of the mask_start loops
    a_pos,              \* position of the `for a_n in decision_agent_id` loop
    mask_start_out,     \* mask1_start..mask10_start: what mask_start returned last
    mask_src,           \* history: the step that wrote each agent's mask last
    refresh_inputs,     \* history: what the agent's last refresh of the tick read
    gather_all,         \* history: the last selection was open in every row
    calls,              \* history: per agent, the calls made on it in this tick
    od_calls,           \* history: number of update_od calls
    ticks,              \* history: number of ticks started
    open_ticks,         \* history: per agent, the ticks whose pre-pass refresh returned
                        \* its candidate mask with an open entry
    passed,             \* history: the actions the collaborators of the last policy
                        \* step received
    gone,               \* history: per agent and instance, the number of ticks it
                        \* had been scheduled in when it was left out of the queue
    last_time,          \* history: scheduled time of the last cohort per instance
    push_ok,            \* history: no push so far was earlier than last_time
    sched_count,        \* history: ticks with indicator 1, per agent and instance
    run_count,          \* history: policy steps run, per agent
    pre_open,           \* history: agents whose first refresh of the tick left a row open
    ran                 \* history: agents that ran a policy step in this tick

vars == <<agent_number, training, mask_fn_given, update_fn_given, stub,
          dynamic_size, submodules, mask_start_out, mask_src, refresh_inputs,
          gather_all, calls, od_calls, ticks, gone, open_ticks, passed, decision_list, cy_decision_list, decision_mask_dict, decision_agent_id,
          mask, agent_mask, dynamic_k, dynamic, dynamic_hidden, decoder_input,
          tw_mask, record, tour_idx, tour_logp, tour_idx_dict, step, pc, ag_id,
          a_pos, last_time, push_ok, sched_count, run_count, pre_open, ran>>

config == <<agent_number, training, mask_fn_given, update_fn_given, stub,
            dynamic_size, submodules>>
history == <<last_time, push_ok, sched_count, run_count, pre_open, ran>>
refreshed == <<mask_start_out, mask_src, refresh_inputs>>
logs == <<calls, od_calls, ticks, gone, open_ticks, passed>>

\* The agents the loops `range(1, self.agent_number)` visit.
Fleet == 1..(agent_number - 1)

\* last_time of an instance from which no cohort was extracted yet.
None == 0 - 1

\* refresh_inputs of an agent not refreshed in this tick, or that has acted since.
NoInputs == <<>>

\* ------------------------------------------------------------ pure helpers
\* The agents lo..hi in decreasing order.
RECURSIVE RangeReversed(_, _)
RangeReversed(lo, hi) == IF lo > hi THEN <<>> ELSE <<hi>> \o RangeReversed(lo, hi - 1)

\* Sequence of the agents lo..hi in increasing order (a Python range).
RECURSIVE Range(_, _)
Range(lo, hi) == IF lo > hi THEN <<>> ELSE <<lo>> \o Range(lo + 1, hi)

\* list.remove(e): drops the first element equal to e.
RECURSIVE RemoveFirst(_, _)
RemoveFirst(q, e) ==
    IF q = <<>> THEN <<>>
    ELSE IF Head(q) = e THEN Tail(q)
    ELSE <<Head(q)>> \o RemoveFirst(Tail(q), e)

\* Insertion of e after every entry whose time is not larger (stable order).
RECURSIVE InsertByTime(_, _)
InsertByTime(q, e) ==
    IF q = <<>> THEN <<e>>
    ELSE IF Head(q)[1] <= e[1] THEN <<Head(q)>> \o InsertByTime(Tail(q), e)
    ELSE <<e>> \o q

RECURSIVE StableSort(_)
StableSort(q) ==
    IF q = <<>> THEN <<>>
    ELSE InsertByTime(StableSort(SubSeq(q, 1, Len(q) - 1)), q[Len(q)])

\* A queue sorted by scheduled time, latest first.
SortByTimeDescending(q) ==
    [i \in 1..Len(q) |-> StableSort(q)[Len(q) + 1 - i]]

\* A queue left in insertion order (a missing sort).
UnsortedQueue(q) == q

\* list.sort(decision_list[so], key=lambda x: [x[0]]): stable, by scheduled time.
SortByTime(q) == StableSort(q)

\* Only the head of the copied queue (ties ignored).
CohortHeadOnly(q) == IF q = <<>> THEN {} ELSE {1}

\* Positions of the copied queue that are flagged and removed in a tick: the head,
\* and every later entry whose time equals the head's.
Cohort(q) ==
    IF q = <<>> THEN {}
    ELSE {1} \cup {n \in 2..Len(q) : q[n][1] = q[1][1]}

\* The live queue after decision_list[ns0].remove(...) for every cohort entry.
RECURSIVE RemoveAll(_, _, _)
RemoveAll(live, cy, ps) ==
    IF ps = {} THEN live
    ELSE LET n == CHOOSE x \in ps : \A y \in ps : x <= y
         IN  RemoveAll(RemoveFirst(live, cy[n]), cy, ps \ {n})

\* Only the head of the copy is removed from the live queue.
RemoveCohortHeadOnly(live, cy) == RemoveAll(live, cy, CohortHeadOnly(cy))

\* The cohort is removed from the copy, the live queue is left as it was.
RemoveCohortFromCopy(live, cy) == live

RemoveCohort(live, cy) == RemoveAll(live, cy, Cohort(cy))

\* Every agent is flagged in every tick, in or out of the queue.
FlagWholeFleet(cy, a, ns) == 1

\* decision_mask_dict after the extraction loop of a tick.
Flag(cy, a, ns) == IF \E n \in Cohort(cy[ns]) : cy[ns][n][2] = a THEN 1 ELSE 0

\* A candidate mask that closes the depot only.
InitMaskRowDepotOnly == Stations \ {0}

\* mask[:, 0] = 0 ; mask[:, len(up_station):] = 0
InitMaskRow == {s \in Stations : s # 0 /\ s < LenUp}
\* agent_mask[:, 0] = 0
InitAgentMaskRow == Stations \ {0}
\* tw_mask[:, 0:, 0] = 0 ; tw_mask[:, 0:, len(up_station):] = 0
InitTwMask == [ns \in Instances |-> [r \in 1..TwRows |-> {s \in Stations : s # 0 /\ s < LenUp}]]

\* A fallback that also opens station 0 in the rows that have an open station.
DepotFallbackOpensDepotEverywhere(m) ==
    [ns \in Instances |-> IF m[ns] = {} THEN {0} ELSE m[ns] \cup {0}]

\* A fallback that also fires on rows that still have an open station.
DepotFallbackAlways(m) == [ns \in Instances |-> {0}]

\* A refresh without the fallback.
DepotFallbackMissing(m) == m

\* The fallback written in the refresh before the agents act, but not in the
\* refresh that follows an agent's step.
DepotFallbackPrepassOnly(m) ==
    [ns \in Instances |-> IF m[ns] = {} /\ pc = "prepass" THEN {0} ELSE m[ns]]

\* Rows of the refreshed mask that sum to zero get station 0 open, all others closed.
DepotFallback(m) == [ns \in Instances |-> IF m[ns] = {} THEN {0} ELSE m[ns]]

\* A test that looks at the last instance of the batch only.
AnyOpenLastRow(m) == m[Batch] # {}

\* A test that asks for an open station in every row.
AllOpen(m) == \A ns \in Instances : m[ns] # {}

\* mask.byte().any() over the whole batch.
AnyOpen(m) == \E ns \in Instances : m[ns] # {}

\* max_steps = sequence_size if self.mask_fn is None else 1000
MaxSteps == IF mask_fn_given THEN StepCap ELSE SeqSize

\* The dynamic encoder applied to a dynamic tensor.
Encode(d) == [of |-> d]

\* Log-probability of the selected station under softmax(probs + mask.log()).
LogProb(row) == IF Cardinality(row) = 1 THEN 0 ELSE -1

\* The greedy branch records the selection without the flag.
RecordedIdxGreedyUnmasked(sel, ind) == IF training THEN sel * ind ELSE sel

\* The index is recorded without the scheduling indicator.
RecordedIdxUnmasked(sel, ind) == sel

\* ptr = ptr * decision_mask_tensor
RecordedIdx(sel, ind) == sel * ind

\* logp = logp * decision_mask_tensor in training mode; logp = prob.log() otherwise.
RecordedLogp(lp, ind) == IF training THEN lp * ind ELSE lp

\* A broadcast that skips the instances in which the actor is not scheduled.
BroadcastScheduledOnly(dk, a) ==
    [k \in Slots |->
        IF k = a THEN dk[a]
        ELSE [ns \in Instances |->
                IF decision_mask_dict[a][ns] = 1
                THEN [dk[k][ns] EXCEPT !.board = dk[a][ns].board]
                ELSE dk[k][ns]]]

\* A broadcast that copies the whole tensor of the actor.
BroadcastWholeTensor(dk, a) == [k \in Slots |-> dk[a]]

\* dynamicK[:, 1:4, 0:len(up_station)] = dynamicA[:, 1:4, 0:len(up_station)] for K # A.
Broadcast(dk, a) ==
    [k \in Slots |->
        IF k = a THEN dk[a]
        ELSE [ns \in Instances |-> [dk[k][ns] EXCEPT !.board = dk[a][ns].board]]]

\* A push that does not look at the action.
PushAlways(q, ptr, t, a) == Append(q, <<t, a>>)

\* decision_list[ns].append([dynamicA[ns][10][0].item(), a_n]) where ptr is not 0.
Push(q, ptr, t, a) == IF ptr # 0 THEN Append(q, <<t, a>>) ELSE q

\* A validation that lets a dynamic_size of 0 through.
DynamicSizeNegative(n) == n < 0

\* if dynamic_size < 1: raise ValueError
DynamicSizeInvalid(n) == n < 1

\* No refresh after an agent's step.
PostRefreshNone(a) == agent_number

\* for ag_id in range(a_n+1, self.agent_number): the first agent refreshed after
\* agent a's step.
PostRefreshFirst(a) == a + 1

\* The records returned by the collaborators of a step are dropped.
RecordKept(a) == record

\* The collaborators are called with the selection as it was made.
ActionSelected(sel, ptr) == sel

\* The action update_tw, update_fn and mask_fn receive: ptrK.data, read after
\* the multiplication by the agent's flag vector.
ActionPassed(sel, ptr) == ptr

\* An agent block that updates the mask before it selects.
StepCallsMaskFnFirst(a) ==
    (IF mask_fn_given THEN <<"mask_fn">> ELSE <<>>)
    \o <<"select", "update_tw">>
    \o (IF update_fn_given THEN <<"update_fn">> ELSE <<>>)
    \o <<"broadcast", "push">>

\* The calls of agent a's block, in the order of its statements: the selection
\* (lines 509-523), update_tw (526), update_fn (535-547), the broadcast (548-574),
\* the push (575-577), mask_fn (583-587).
StepCalls(a) ==
    <<"select", "update_tw">>
    \o (IF update_fn_given THEN <<"update_fn">> ELSE <<>>)
    \o <<"broadcast", "push">>
    \o (IF mask_fn_given THEN <<"mask_fn">> ELSE <<>>)

\* A tick without the update_od call.
AfterExtractSkipOd == "check"

\* The statement that follows the extraction of a tick: the update_od call.
AfterExtract == "update_od"

\* record1..record3 after agent a's step: update_fn's when update_fn is given,
\* update_tw's otherwise.
RecordAfterStep(a) ==
    IF update_fn_given THEN <<"update_fn", a>> ELSE <<"update_tw", a>>

\* The initial queue of an instance: one entry per agent of the fleet, then sorted.
InitQueue(d0, ns, n) ==
    SortByTime([i \in 1..(n - 1) |-> <<d0[i][ns].ch7, i>>])

\* ------------------------------------------------------------------- Init
\* The dynamic tensors passed in. Only the initial scheduled times (channel 7,
\* station 0) of agents 1 and 2 differ between the inputs: in the first input the
\* two agents tie at time 0 in instance 1 and agent 1 is first elsewhere; in the
\* second they tie at the largest time in instance 1 and agent 2 is first elsewhere;
\* in the third every agent has time 0 in every instance.
\* The boarding slice of agent 1's input differs from the other agents'.
InitTimes ==
    {[k \in Slots |-> [ns \in Instances |->
        IF k = 2 /\ ns # 1 THEN MaxTime ELSE 0]],
     [k \in Slots |-> [ns \in Instances |->
        IF k > 2 \/ (k = 2 /\ ns # 1) THEN 0 ELSE MaxTime]],
     [k \in Slots |-> [ns \in Instances |-> 0]]}

InitDynamics ==
    {[k \in Slots |-> [ns \in Instances |->
        [board |-> IF k = 1 THEN 1 ELSE 0, ch5 |-> 0, ch10 |-> 0,
         ch7 |-> t[k][ns]]]] : t \in InitTimes}

\* The dynamic_size arguments explored.
DynamicSizes == {0 - 1, 0, 1}

\* The constructor arguments explored: <<Agent_n, training, mask_fn given,
\* update_fn given, collaborator results>>.
Configs ==
    {<<3, TRUE, TRUE, TRUE, "free">>,
     <<3, FALSE, TRUE, TRUE, "free">>,
     <<3, TRUE, TRUE, TRUE, "spec">>,
     <<0, TRUE, TRUE, TRUE, "fixed">>,
     <<3, TRUE, FALSE, TRUE, "fixed">>,
     <<3, FALSE, FALSE, FALSE, "fixed">>,
     <<NSlots + 1, TRUE, TRUE, TRUE, "fixed">>,
     <<NSlots + 1, FALSE, FALSE, TRUE, "fixed">>}

Init ==
    /\ \E c \in Configs :
          /\ agent_number = c[1]
          /\ training = c[2]
          /\ mask_fn_given = c[3]
          /\ update_fn_given = c[4]
          /\ stub = c[5]
    /\ dynamic_size \in DynamicSizes
    /\ submodules = FALSE
    /\ dynamic_k \in InitDynamics
    /\ dynamic = dynamic_k
    /\ decision_list = [ns \in Instances |-> InitQueue(dynamic_k, ns, agent_number)]
    /\ cy_decision_list = [ns \in Instances |-> <<>>]
    /\ decision_mask_dict = [a \in Fleet |-> [ns \in Instances |-> 0]]
    /\ decision_agent_id = <<>>
    /\ mask = [k \in Slots |-> [ns \in Instances |-> InitMaskRow]]
    /\ agent_mask = [k \in Slots |-> [ns \in Instances |-> InitAgentMaskRow]]
    /\ dynamic_hidden = [k \in Slots |-> Encode(dynamic_k[k])]
    /\ decoder_input = [k \in Slots |-> [ns \in Instances |-> "x0"]]
    /\ tw_mask = InitTwMask
    /\ record = <<"input", 0>>
    /\ tour_idx = [a \in Fleet |-> <<>>]
    /\ tour_logp = [a \in Fleet |-> <<>>]
    /\ tour_idx_dict = [a \in Fleet |-> [ns \in Instances |-> <<>>]]
    /\ step = 0
    /\ pc = "init"
    /\ ag_id = 0
    /\ a_pos = 0
    /\ mask_start_out = [k \in Slots |-> [ns \in Instances |-> {}]]
    /\ mask_src = [k \in Slots |-> "init"]
    /\ refresh_inputs = [k \in Slots |-> NoInputs]
    /\ gather_all = TRUE
    /\ calls = [a \in Fleet |-> <<>>]
    /\ od_calls = 0
    /\ ticks = 0
    /\ gone = [a \in Fleet |-> [ns \in Instances |-> None]]
    /\ open_ticks = [a \in Fleet |-> 0]
    /\ passed = [tw |-> NoInputs, fn |-> NoInputs, mf |-> NoInputs]
    /\ last_time = [ns \in Instances |-> None]
    /\ push_ok = [ns \in Instances |-> TRUE]
    /\ sched_count = [a \in Fleet |-> [ns \in Instances |-> 0]]
    /\ run_count = [a \in Fleet |-> 0]
    /\ pre_open = {}
    /\ ran = {}

\* ------------------------------------------------- collaborator results
ZeroRows == [ns \in Instances |-> {}]
\* Every row with two open stations.
OpenRows == [ns \in Instances |-> {1, 2}]
\* One open station in instance 1, every other row closed.
MixedRows == [ns \in Instances |-> IF ns = 1 THEN {1} ELSE {}]

\* mask_start as the specification describes it: the baseline candidate mask is
\* computed from the time-window validity of the boarding stations; the depot and
\* the alighting stations stay closed, the activity mask is passed through.
MaskStartSpec(m, d, tw, am) ==
    <<[ns \in Instances |->
          {s \in Stations : /\ s # 0 /\ s < LenUp
                            /\ \E r \in 1..TwRows : s \in tw[ns][r]}],
      am>>

\* (mask', agent_mask') returned by mask_start for agent k.
MaskStartResults(k) ==
    IF stub = "fixed"
    THEN {<<[ns \in Instances |-> {1}], agent_mask[k]>>}
    ELSE IF stub = "spec"
    THEN {MaskStartSpec(mask[k], dynamic_k[k], tw_mask, agent_mask[k])}
    ELSE {<<OpenRows, agent_mask[k]>>, <<MixedRows, agent_mask[k]>>,
          <<ZeroRows, ZeroRows>>}

\* (mask', agent_mask') returned by mask_fn for agent k after action ptr: the
\* chosen station is closed; the fixed collaborator also ends the agent's activity.
MaskFnResults(k, ptr) ==
    LET visited == [ns \in Instances |-> mask[k][ns] \ {ptr[ns]}]
    IN  IF stub = "fixed"
        THEN {<<visited, ZeroRows>>}
        ELSE {<<visited, agent_mask[k]>>}

\* tw_mask' returned by update_tw: the window of the chosen station is closed.
UpdateTwResults(ptr) ==
    {[ns \in Instances |-> [r \in 1..TwRows |-> tw_mask[ns][r] \ {ptr[ns]}]]}

\* The acting agent's dynamic tensor returned by update_fn: where the action is
\* not 0 the boarding slice changes and channel 10 holds the next decision time.
UpdateFnResults(d, ptr) ==
    LET out(t) == [ns \in Instances |->
                      IF ptr[ns] # 0
                      THEN [d[ns] EXCEPT !.board = 1 - @, !.ch10 = t]
                      ELSE d[ns]]
    IN  IF stub = "fixed"
        THEN {out(MaxTime)}
        ELSE {out(t) : t \in Times}

\* The list of dynamic tensors returned by update_od: unchanged, or the boarding
\* demand of every agent reset.
UpdateOdResults(dk) ==
    IF stub = "free"
    THEN {dk, [k \in Slots |-> [ns \in Instances |-> [dk[k][ns] EXCEPT !.board = 0]]]}
    ELSE {dk}

\* The stations the selection can return for a mask row: every station.
CandidatesAnyStation(row) == Stations

\* The stations the selection can return for a mask row: sampling with rejection
\* (training) or arg-max of the masked softmax (evaluation) yields an open station.
Candidates(row) == row

\* ---------------------------------------------------------------- actions
\* What mask_start reads when it refreshes agent k.
MaskStartInputs(k) == <<dynamic_k[k], tw_mask, agent_mask[k]>>

\* Lines 111-117: the constructor rejects a dynamic_size below 1.
RaiseValueError ==
    /\ pc = "init"
    /\ DynamicSizeInvalid(dynamic_size)
    /\ pc' = "ValueError"
    /\ UNCHANGED logs
    /\ UNCHANGED <<config, refreshed, gather_all, decision_list, cy_decision_list,
                   decision_mask_dict, decision_agent_id, mask, agent_mask,
                   dynamic_k, dynamic, dynamic_hidden, decoder_input, tw_mask,
                   record, tour_idx, tour_logp, tour_idx_dict, step, ag_id, a_pos,
                   history>>

\* Lines 118-170 and 185-312: the constructor creates the sub-modules; forward
\* sets up the queues, the masks and the sequences.
Construct ==
    /\ pc = "init"
    /\ ~DynamicSizeInvalid(dynamic_size)
    /\ submodules' = TRUE
    /\ pc' = "extract"
    /\ UNCHANGED logs
    /\ UNCHANGED <<agent_number, training, mask_fn_given, update_fn_given, stub,
                   dynamic_size, refreshed, gather_all, decision_list,
                   cy_decision_list, decision_mask_dict, decision_agent_id, mask,
                   agent_mask, dynamic_k, dynamic, dynamic_hidden, decoder_input,
                   tw_mask, record, tour_idx, tour_logp, tour_idx_dict, step, ag_id,
                   a_pos, history>>

\* Lines 315-355: copy the queues, flag and remove the cohort, write channel 5.
Extract ==
    /\ pc = "extract"
    /\ step < MaxSteps
    /\ cy_decision_list' = decision_list
    /\ decision_mask_dict' =
          [a \in Fleet |-> [ns \in Instances |-> Flag(decision_list, a, ns)]]
    /\ decision_list' =
          [ns \in Instances |-> RemoveCohort(decision_list[ns], decision_list[ns])]
    /\ dynamic_k' =
          [k \in Slots |-> [ns \in Instances |->
              IF decision_list[ns] # <<>>
              THEN [dynamic_k[k][ns] EXCEPT
                       !.ch5 = dynamic[decision_list[ns][1][2]][ns].ch10]
              ELSE dynamic_k[k][ns]]]
    /\ last_time' = [ns \in Instances |->
          IF decision_list[ns] # <<>> THEN decision_list[ns][1][1] ELSE last_time[ns]]
    /\ sched_count' = [a \in Fleet |-> [ns \in Instances |->
          sched_count[a][ns] + Flag(decision_list, a, ns)]]
    /\ pre_open' = {}
    /\ ran' = {}
    /\ refresh_inputs' = [k \in Slots |-> NoInputs]
    /\ pc' = AfterExtract
    /\ ticks' = ticks + 1
    /\ calls' = [a \in Fleet |-> <<>>]
    /\ UNCHANGED <<od_calls, gone, open_ticks, passed>>
    /\ UNCHANGED <<config, mask_start_out, mask_src, gather_all,
                   decision_agent_id, mask, agent_mask, dynamic,
                   dynamic_hidden, decoder_input, tw_mask, record, tour_idx,
                   tour_logp, tour_idx_dict, step, ag_id, a_pos, push_ok, run_count>>

\* Lines 356-385: one update_od call for the whole batch and all agents.
UpdateOd ==
    /\ pc = "update_od"
    /\ \E r \in UpdateOdResults(dynamic_k) :
          /\ dynamic' = r
          /\ dynamic_k' = r
    /\ record' = <<"update_od", 0>>
    /\ pc' = "check"
    /\ od_calls' = od_calls + 1
    /\ UNCHANGED <<calls, ticks, gone, open_ticks, passed>>
    /\ UNCHANGED <<config, refreshed, gather_all, decision_list, cy_decision_list, decision_mask_dict,
                   decision_agent_id, mask, agent_mask, dynamic_hidden,
                   decoder_input, tw_mask, tour_idx, tour_logp, tour_idx_dict,
                   step, ag_id, a_pos, history>>

\* A check that also asks for a queue that still holds an entry.
MaskJudgeAndQueues ==
    /\ \E k \in Slots, ns \in Instances : agent_mask[k][ns] # {}
    /\ \E ns \in Instances : decision_list[ns] # <<>>

\* mask_judge = agent_mask1 + ... + agent_mask10 ; mask_judge.byte().any()
MaskJudgeAny == \E k \in Slots, ns \in Instances : agent_mask[k][ns] # {}

\* Lines 386-394, the break.
Break ==
    /\ pc = "check"
    /\ ~MaskJudgeAny
    /\ decision_agent_id' = Range(1, agent_number - 1)
    /\ pc' = "concat"
    /\ UNCHANGED logs
    /\ UNCHANGED <<config, refreshed, gather_all, decision_list, cy_decision_list, decision_mask_dict,
                   mask, agent_mask, dynamic_k, dynamic, dynamic_hidden,
                   decoder_input, tw_mask, record, tour_idx, tour_logp,
                   tour_idx_dict, step, ag_id, a_pos, history>>

\* Lines 386-394, the loop goes on.
PassCheck ==
    /\ pc = "check"
    /\ MaskJudgeAny
    /\ decision_agent_id' = Range(1, agent_number - 1)
    /\ IF 1 <= agent_number - 1
       THEN pc' = "prepass" /\ ag_id' = 1 /\ a_pos' = a_pos
       ELSE pc' = "agents" /\ ag_id' = ag_id /\ a_pos' = 1
    /\ UNCHANGED logs
    /\ UNCHANGED <<config, refreshed, gather_all, decision_list, cy_decision_list,
                   decision_mask_dict, mask, agent_mask, dynamic_k, dynamic,
                   dynamic_hidden, decoder_input, tw_mask, record, tour_idx,
                   tour_logp, tour_idx_dict, step, history>>

\* Lines 395-505: baseline refresh of agent ag_id before any agent acts.
MaskStartPre ==
    /\ pc = "prepass"
    /\ \E r \in MaskStartResults(ag_id) :
          /\ mask' = [mask EXCEPT ![ag_id] = DepotFallback(r[1])]
          /\ agent_mask' = [agent_mask EXCEPT ![ag_id] = r[2]]
          /\ decision_agent_id' =
                IF AnyOpen(r[1]) THEN decision_agent_id
                ELSE RemoveFirst(decision_agent_id, ag_id)
          /\ pre_open' = IF \E ns \in Instances : r[1][ns] # {}
                         THEN pre_open \cup {ag_id} ELSE pre_open
          /\ mask_start_out' = [mask_start_out EXCEPT ![ag_id] = r[1]]
    /\ mask_src' = [mask_src EXCEPT ![ag_id] = "mask_start"]
    /\ refresh_inputs' = [refresh_inputs EXCEPT ![ag_id] = MaskStartInputs(ag_id)]
    /\ IF ag_id = agent_number - 1
       THEN pc' = "agents" /\ a_pos' = 1 /\ ag_id' = ag_id
       ELSE pc' = pc /\ a_pos' = a_pos /\ ag_id' = ag_id + 1
    /\ calls' = [calls EXCEPT ![ag_id] = Append(@, "mask_start")]
    /\ open_ticks' = [open_ticks EXCEPT ![ag_id] =
          IF \E ns \in Instances : mask_start_out'[ag_id][ns] # {} THEN @ + 1 ELSE @]
    /\ UNCHANGED <<od_calls, ticks, gone, passed>>
    /\ UNCHANGED <<config, gather_all, decision_list, cy_decision_list, decision_mask_dict,
                   dynamic_k, dynamic, dynamic_hidden, decoder_input, tw_mask,
                   record, tour_idx, tour_logp, tour_idx_dict, step, last_time,
                   push_ok, sched_count, run_count, ran>>

\* Lines 507-589 (agent 1) ... 1225-1301 (agent 10): the policy step of the agent
\* at position a_pos of decision_agent_id.
PolicyStep ==
    /\ pc = "agents"
    /\ a_pos <= Len(decision_agent_id)
    /\ LET a == decision_agent_id[a_pos]
           ind == decision_mask_dict[a]
       IN
       /\ \A ns \in Instances : mask[a][ns] # {}
       /\ \E sel \in [Instances -> Stations] :
          /\ \A ns \in Instances : sel[ns] \in Candidates(mask[a][ns])
          /\ LET ptr == [ns \in Instances |-> RecordedIdx(sel[ns], ind[ns])]
                 logp == [ns \in Instances |->
                            RecordedLogp(LogProb(mask[a][ns]), ind[ns])]
             IN
             \E tw \in UpdateTwResults(ActionPassed(sel, ptr)),
                d \in (IF update_fn_given
                       THEN UpdateFnResults(dynamic_k[a], ActionPassed(sel, ptr))
                       ELSE {dynamic_k[a]}),
                mf \in (IF mask_fn_given THEN MaskFnResults(a, ActionPassed(sel, ptr))
                        ELSE {<<mask[a], agent_mask[a]>>}) :
                /\ passed' = [tw |-> ActionPassed(sel, ptr),
                              fn |-> IF update_fn_given THEN ActionPassed(sel, ptr)
                                     ELSE NoInputs,
                              mf |-> IF mask_fn_given THEN ActionPassed(sel, ptr)
                                     ELSE NoInputs]
                /\ tw_mask' = tw
                /\ record' = RecordAfterStep(a)
                /\ dynamic_hidden' = IF update_fn_given
                                     THEN [dynamic_hidden EXCEPT ![a] = Encode(d)]
                                     ELSE dynamic_hidden
                /\ dynamic_k' = Broadcast([dynamic_k EXCEPT ![a] = d], a)
                /\ decision_list' = [ns \in Instances |->
                      Push(decision_list[ns], ptr[ns], d[ns].ch10, a)]
                /\ push_ok' = [ns \in Instances |->
                      push_ok[ns] /\ (ptr[ns] # 0 => d[ns].ch10 >= last_time[ns])]
                /\ tour_logp' = [tour_logp EXCEPT ![a] = Append(@, logp)]
                /\ tour_idx' = [tour_idx EXCEPT ![a] = Append(@, ptr)]
                /\ tour_idx_dict' = [tour_idx_dict EXCEPT ![a] =
                      [ns \in Instances |->
                          IF ptr[ns] # 0 THEN Append(@[ns], ptr[ns]) ELSE @[ns]]]
                /\ mask' = [mask EXCEPT ![a] = mf[1]]
                /\ agent_mask' = [agent_mask EXCEPT ![a] = mf[2]]
                /\ decoder_input' = [decoder_input EXCEPT ![a] = ptr]
          /\ gather_all' = \A ns \in Instances : sel[ns] \in mask[a][ns]
       /\ mask_src' = IF mask_fn_given THEN [mask_src EXCEPT ![a] = "mask_fn"]
                      ELSE mask_src
       /\ refresh_inputs' = [refresh_inputs EXCEPT ![a] = NoInputs]
       /\ run_count' = [run_count EXCEPT ![a] = @ + 1]
       /\ calls' = [calls EXCEPT ![a] = @ \o StepCalls(a)]
       /\ ran' = ran \cup {a}
       /\ IF PostRefreshFirst(a) <= agent_number - 1
          THEN pc' = "refresh" /\ ag_id' = PostRefreshFirst(a) /\ a_pos' = a_pos
          ELSE pc' = pc /\ ag_id' = ag_id /\ a_pos' = a_pos + 1
    /\ UNCHANGED <<od_calls, ticks, gone, open_ticks>>
    /\ UNCHANGED <<config, mask_start_out, cy_decision_list, decision_mask_dict, decision_agent_id,
                   dynamic, step, last_time, sched_count, pre_open>>

\* Lines 1303-1398: after an agent's step, baseline refresh of every later agent.
MaskStartPost ==
    /\ pc = "refresh"
    /\ \E r \in MaskStartResults(ag_id) :
          /\ mask' = [mask EXCEPT ![ag_id] = DepotFallback(r[1])]
          /\ agent_mask' = [agent_mask EXCEPT ![ag_id] = r[2]]
          /\ mask_start_out' = [mask_start_out EXCEPT ![ag_id] = r[1]]
    /\ mask_src' = [mask_src EXCEPT ![ag_id] = "mask_start"]
    /\ refresh_inputs' = [refresh_inputs EXCEPT ![ag_id] = MaskStartInputs(ag_id)]
    /\ IF ag_id = agent_number - 1
       THEN pc' = "agents" /\ a_pos' = a_pos + 1 /\ ag_id' = ag_id
       ELSE pc' = pc /\ a_pos' = a_pos /\ ag_id' = ag_id + 1
    /\ calls' = [calls EXCEPT ![ag_id] = Append(@, "mask_start")]
    /\ UNCHANGED <<od_calls, ticks, gone, open_ticks, passed>>
    /\ UNCHANGED <<config, gather_all, decision_list, cy_decision_list, decision_mask_dict,
                   decision_agent_id, dynamic_k, dynamic, dynamic_hidden,
                   decoder_input, tw_mask, record, tour_idx, tour_logp,
                   tour_idx_dict, step, history>>

\* Lines 1399-1400: every queue is re-sorted, the tick ends.
EndTick ==
    /\ pc = "agents"
    /\ a_pos > Len(decision_agent_id)
    /\ decision_list' = [ns \in Instances |-> SortByTime(decision_list[ns])]
    /\ step' = step + 1
    /\ pc' = "extract"
    /\ gone' = [a \in Fleet |-> [ns \in Instances |->
          IF gone[a][ns] # None THEN gone[a][ns]
          ELSE IF \A n \in 1..Len(decision_list[ns]) : decision_list[ns][n][2] # a
               THEN sched_count[a][ns]
               ELSE None]]
    /\ UNCHANGED <<calls, od_calls, ticks, open_ticks, passed>>
    /\ UNCHANGED <<config, refreshed, gather_all, cy_decision_list, decision_mask_dict, decision_agent_id,
                   mask, agent_mask, dynamic_k, dynamic, dynamic_hidden,
                   decoder_input, tw_mask, record, tour_idx, tour_logp,
                   tour_idx_dict, ag_id, a_pos, history>>

\* A concatenation that turns an empty list into an empty tensor.
CatNeverFails(steps) == FALSE

\* torch.cat(steps, dim=1) raises when the list of step columns is empty.
CatFails(steps) == steps = <<>>

\* The loop is over: the break was taken or max_steps ticks were run.
LoopOver == pc = "concat" \/ (pc = "extract" /\ step = MaxSteps)

\* Lines 1401-1406: torch.cat of every agent's lists, then the return.
Return ==
    /\ LoopOver
    /\ \A a \in Fleet : ~CatFails(tour_idx[a])
    /\ pc' = "done"
    /\ UNCHANGED logs
    /\ UNCHANGED <<config, refreshed, gather_all, decision_list, cy_decision_list, decision_mask_dict,
                   decision_agent_id, mask, agent_mask, dynamic_k, dynamic,
                   dynamic_hidden, decoder_input, tw_mask, record, tour_idx,
                   tour_logp, tour_idx_dict, step, ag_id, a_pos, history>>

\* Lines 1401-1403: torch.cat of an empty list raises.
ConcatError ==
    /\ LoopOver
    /\ \E a \in Fleet : CatFails(tour_idx[a])
    /\ pc' = "error"
    /\ UNCHANGED logs
    /\ UNCHANGED <<config, refreshed, gather_all, decision_list, cy_decision_list, decision_mask_dict,
                   decision_agent_id, mask, agent_mask, dynamic_k, dynamic,
                   dynamic_hidden, decoder_input, tw_mask, record, tour_idx,
                   tour_logp, tour_idx_dict, step, ag_id, a_pos, history>>

Next ==
    \/ RaiseValueError
    \/ Construct
    \/ Extract
    \/ UpdateOd
    \/ Break
    \/ PassCheck
    \/ MaskStartPre
    \/ PolicyStep
    \/ MaskStartPost
    \/ EndTick
    \/ Return
    \/ ConcatError

Spec == Init /\ [][Next]_vars

\* ----------------------------------------------------------------- claims
\* Helpers of the claims' formulas.
MinTime(q) == CHOOSE t \in {q[n][1] : n \in 1..Len(q)} :
                 \A n \in 1..Len(q) : t <= q[n][1]
TiedAtMin(q) == {n \in 1..Len(q) : q[n][1] = MinTime(q)}
Entries(q) == {q[n] : n \in 1..Len(q)}
AgentsIn(q) == {q[n][2] : n \in 1..Len(q)}
FlaggedIn(ns) == {a \in Fleet : decision_mask_dict[a][ns] = 1}
NonZeroCount(a, ns) == Cardinality({i \in 1..Len(tour_idx[a]) : tour_idx[a][i][ns] # 0})
JustExtracted == pc = "update_od"

\* C1: right after the extraction of a tick, in every instance whose copied queue
\* is non-empty, the flagged agents are exactly the agents of the entries tied at
\* the minimum scheduled time of that queue, as many entries left the live queue
\* as are tied at the minimum, and every entry left behind has a larger time.
C1_CohortIsMinimumTie ==
    JustExtracted =>
        \A ns \in Instances :
            LET cy == cy_decision_list[ns]
            IN  cy # <<>> =>
                /\ FlaggedIn(ns) = {cy[n][2] : n \in TiedAtMin(cy)}
                /\ Len(cy) - Len(decision_list[ns]) = Cardinality(TiedAtMin(cy))
                /\ Entries(decision_list[ns]) = Entries(cy) \ {cy[n] : n \in TiedAtMin(cy)}
                /\ \A e \in Entries(decision_list[ns]) : e[1] > MinTime(cy)

\* C1 witness: a cohort of at least two tied agents was extracted while an entry
\* with a larger time stayed in the queue.
C1_Witness ==
    /\ JustExtracted
    /\ \E ns \in Instances :
          /\ Cardinality(FlaggedIn(ns)) >= 2
          /\ decision_list[ns] # <<>>

\* C2 as claimed: the scheduled time of the cohort extracted from an instance never
\* decreases from one extraction to the next.
C2_TimesNeverDecrease ==
    [][\A ns \in Instances :
          last_time[ns] # None => last_time'[ns] >= last_time[ns]]_vars

\* C2 amended: as long as no entry was pushed with a time smaller than the time of
\* the cohort extracted in the tick of the push, the scheduled time of the cohort
\* extracted from an instance never decreases from one extraction to the next.
C2_TimesNeverDecreaseIfPushesLater ==
    [][\A ns \in Instances :
          (push_ok[ns] /\ last_time[ns] # None) => last_time'[ns] >= last_time[ns]]_vars

\* C2 witness: an agent pushed in an earlier tick, never earlier than the cohort
\* of that tick, is extracted again.
C2_Witness ==
    /\ JustExtracted
    /\ step >= 1
    /\ \E ns \in Instances, a \in Fleet :
          /\ push_ok[ns]
          /\ decision_mask_dict[a][ns] = 1
          /\ tour_idx_dict[a][ns] # <<>>

\* C3 as claimed: at the return, the length of an agent's action sequence equals,
\* for every instance, the number of ticks in which the instance's indicator was 1.
C3_LengthIsScheduledTicks ==
    pc = "done" =>
        \A a \in Fleet, ns \in Instances : Len(tour_idx[a]) = sched_count[a][ns]

\* C3 amended: the length of an agent's action sequence (and of its log-probability
\* sequence) is the number of policy steps the agent ran, the same for every
\* instance; the ticks in which an instance's indicator was 1 bound only the number
\* of non-zero entries of that instance.
C3_LengthIsStepsRun ==
    \A a \in Fleet :
        /\ Len(tour_idx[a]) = run_count[a]
        /\ Len(tour_logp[a]) = run_count[a]
        /\ \A ns \in Instances : NonZeroCount(a, ns) <= sched_count[a][ns]

\* C3 witness: a returned sequence longer than the number of scheduled ticks of
\* an instance, holding a non-zero action of another instance.
C3_Witness ==
    /\ pc = "done"
    /\ \E a \in Fleet, ns \in Instances, ms \in Instances :
          /\ Len(tour_idx[a]) > sched_count[a][ns]
          /\ NonZeroCount(a, ms) > 0

Last(q) == q[Len(q)]
FleetInactive == \A a \in Fleet, ns \in Instances : agent_mask[a][ns] = {}
EndOfAgentLoop == pc = "agents" /\ a_pos > Len(decision_agent_id)
\* An agent has run its policy step and no later step has run since.
Acted == pc = "refresh" \/ (pc = "agents" /\ a_pos > 1)
Actor == IF pc = "refresh" THEN decision_agent_id[a_pos] ELSE decision_agent_id[a_pos - 1]
\* The agent whose policy step is the next thing to run.
AboutToAct == pc = "agents" /\ a_pos <= Len(decision_agent_id)
NextActor == decision_agent_id[a_pos]

\* C4 as claimed: the loop does not go past the termination check of a tick when
\* the activity masks of all agents of the fleet are zero in every instance.
C4_HaltsWhenFleetInactive ==
    ~(pc = "prepass" /\ ag_id = 1 /\ FleetInactive)

\* C5 as claimed: when the step cap is reached while an agent of the fleet is still
\* active, the rollout does not end in an error.
C5_CapReturnsWithoutError ==
    (step = MaxSteps /\ ~FleetInactive) => pc # "error"

\* C6 as claimed: every agent id in 1..Agent_n has its sequences and its scheduling
\* indicator, and an entry in every instance's initial queue.
C6_EveryAgentTakesPart ==
    \A a \in 1..agent_number :
        /\ a \in DOMAIN tour_idx
        /\ a \in DOMAIN tour_logp
        /\ a \in DOMAIN decision_mask_dict
        /\ (pc = "extract" /\ step = 0) =>
              \A ns \in Instances : a \in AgentsIn(decision_list[ns])

\* C7 as claimed: whenever a policy step appends to an agent's sequences, the index
\* and the log-probability appended for an instance whose indicator is 0 are both 0,
\* in training mode and in evaluation mode.
C7_UnscheduledRecordsZero ==
    [][\A a \in Fleet :
          Len(tour_idx'[a]) = Len(tour_idx[a]) + 1 =>
              \A ns \in Instances :
                  decision_mask_dict[a][ns] = 0 =>
                      /\ Last(tour_idx'[a])[ns] = 0
                      /\ Last(tour_logp'[a])[ns] = 0]_vars

\* C8: right after an agent's policy step, in every instance, every other agent
\* slot holds the acting agent's boarding slice.
C8_BroadcastReachesEveryPeer ==
    Acted =>
        \A k \in Slots \ {Actor}, ns \in Instances :
            dynamic_k[k][ns].board = dynamic_k[Actor][ns].board

\* C8 witness: the first agent to act in a tick has acted, in an instance in which
\* it was not scheduled and in which a peer's slice differed from its own before.
C8_Witness ==
    /\ Acted
    /\ ran = {Actor}
    /\ \E ns \in Instances, k \in Slots :
          /\ decision_mask_dict[Actor][ns] = 0
          /\ dynamic[k][ns].board # dynamic[Actor][ns].board
          /\ dynamic_k[k][ns].board = dynamic_k[Actor][ns].board

\* C9 as claimed: when an agent is about to run its policy step after a peer has
\* acted, its dynamic encoding holds the boarding slice of its current tensor.
C9_EncodingHasCurrentSlice ==
    (AboutToAct /\ \E b \in Fleet \ {NextActor} : run_count[b] > 0) =>
        \A ns \in Instances :
            dynamic_hidden[NextActor].of[ns].board = dynamic_k[NextActor][ns].board

\* C10 as claimed: when the agent loop of a tick is over, or the loop was left,
\* every agent flagged in some instance has run its policy step in this tick, and
\* in each such instance it is back in the queue or its recorded action is 0.
C10_FlaggedAgentsRun ==
    (EndOfAgentLoop \/ pc = "concat") =>
        \A a \in Fleet :
            (\E ns \in Instances : decision_mask_dict[a][ns] = 1) =>
                /\ a \in ran
                /\ \A ns \in Instances :
                      decision_mask_dict[a][ns] = 1 =>
                          \/ a \in AgentsIn(decision_list[ns])
                          \/ Last(tour_idx[a])[ns] = 0

\* C10 amended: in a tick that passes the termination check, the agents that run
\* a policy step are, in increasing id order, exactly those whose first refresh of
\* the tick left a candidate open in some instance; a flagged agent among them is,
\* in each instance that flagged it, back in the queue exactly when its recorded
\* action is not 0, and a flagged agent not among them is left out of the queue.
\* In the tick on which the loop is left no agent runs.
C10_FlaggedOpenAgentsRun ==
    /\ pc = "concat" => ran = {}
    /\ EndOfAgentLoop =>
        /\ ran = pre_open
        /\ ran = {decision_agent_id[i] : i \in 1..Len(decision_agent_id)}
        /\ \A i \in 1..(Len(decision_agent_id) - 1) :
              decision_agent_id[i] < decision_agent_id[i + 1]
        /\ \A a \in Fleet, ns \in Instances :
              decision_mask_dict[a][ns] = 1 =>
                  IF a \in pre_open
                  THEN (Last(tour_idx[a])[ns] # 0) <=> (a \in AgentsIn(decision_list[ns]))
                  ELSE a \notin AgentsIn(decision_list[ns])

\* C10 witness: at the end of a tick's agent loop, one flagged agent ran and is back
\* in the queue while another flagged agent did not run.
C10_Witness ==
    /\ EndOfAgentLoop
    /\ \E a \in Fleet, b \in Fleet, ns \in Instances :
          /\ decision_mask_dict[a][ns] = 1
          /\ a \in ran
          /\ a \in AgentsIn(decision_list[ns])
          /\ decision_mask_dict[b][ns] = 1
          /\ b \notin ran

\* C11: a policy step of agent a appends to the queue of every instance whose
\* recorded action is not 0 exactly the one entry (next_time, a), next_time being
\* channel 10 of a's dynamic tensor as the step leaves it, and leaves the queue of
\* every instance whose recorded action is 0 as it was.
C11_PushIffActionNonZero ==
    [][(pc = "agents" /\ a_pos <= Len(decision_agent_id)) =>
          LET a == decision_agent_id[a_pos]
          IN  \A ns \in Instances :
                 IF Last(tour_idx'[a])[ns] # 0
                 THEN decision_list'[ns] =
                          Append(decision_list[ns], <<dynamic_k'[a][ns].ch10, a>>)
                 ELSE decision_list'[ns] = decision_list[ns]]_vars

\* C11 witness: an agent has just acted; in one instance its recorded action is
\* not 0 and the queue ends with its new entry, holding a next_time that update_fn
\* wrote, and in another instance its recorded action is 0 and it is not queued.
C11_Witness ==
    /\ Acted
    /\ \E ns \in Instances, ms \in Instances :
          /\ Last(tour_idx[Actor])[ns] # 0
          /\ decision_list[ns] # <<>>
          /\ Last(decision_list[ns]) = <<MaxTime, Actor>>
          /\ dynamic_k[Actor][ns].ch10 = MaxTime
          /\ Last(tour_idx[Actor])[ms] = 0
          /\ Actor \notin AgentsIn(decision_list[ms])

\* C12: whenever an agent is about to run its policy step, every instance row of
\* its candidate mask has an open station, and the mask is the one its last
\* baseline refresh (mask_start, then the depot fallback) left: rows in which
\* mask_start opened nothing hold station 0 only, and nothing has written the
\* mask since.
C12_MaskOpenAtPolicyStep ==
    AboutToAct =>
        /\ \A ns \in Instances : mask[NextActor][ns] # {}
        /\ mask_src[NextActor] = "mask_start"
        /\ \A ns \in Instances :
              mask[NextActor][ns] =
                  IF mask_start_out[NextActor][ns] = {} THEN {0}
                  ELSE mask_start_out[NextActor][ns]

\* C12 witness: an agent whose mask was written by mask_fn in an earlier tick is
\* about to act after a lower agent acted in this tick; mask_start opened nothing
\* in one of its rows, which the fallback turned into station 0.
C12_Witness ==
    /\ AboutToAct
    /\ ran # {}
    /\ run_count[NextActor] > 0
    /\ mask_fn_given
    /\ \E ns \in Instances :
          /\ mask_start_out[NextActor][ns] = {}
          /\ mask[NextActor][ns] = {0}

\* C13 as claimed: when a row of an agent's candidate mask sums to zero, the next
\* baseline refresh of the agent leaves that row with station 0 open and every
\* other station closed.
C13_ZeroRowForcedToDepot ==
    [][(pc \in {"prepass", "refresh"}) =>
          \A ns \in Instances :
              mask[ag_id][ns] = {} => mask'[ag_id][ns] = {0}]_vars

\* C13 amended: a baseline refresh of an agent leaves a row with station 0 open
\* and every other station closed exactly when the row mask_start returned sums
\* to zero; any other row is left as mask_start returned it, whatever the row
\* held before the refresh; the masks of the other agents are not touched.
C13_ZeroResultForcedToDepot ==
    [][(pc \in {"prepass", "refresh"}) =>
          /\ \A ns \in Instances :
                mask'[ag_id][ns] =
                    IF mask_start_out'[ag_id][ns] = {} THEN {0}
                    ELSE mask_start_out'[ag_id][ns]
          /\ \A k \in Slots \ {ag_id} : mask'[k] = mask[k]]_vars

\* C13 witness: an agent's last refresh found one row that mask_start returned
\* closed, now holding station 0 only, and one row that mask_start returned with
\* an open station, left as returned.
C13_Witness ==
    \E k \in Fleet, ns \in Instances, ms \in Instances :
        /\ mask_src[k] = "mask_start"
        /\ mask_start_out[k][ns] = {}
        /\ mask[k][ns] = {0}
        /\ mask_start_out[k][ms] # {}
        /\ mask[k][ms] = mask_start_out[k][ms]

\* C14: in training mode and in evaluation mode, the station selected by a policy
\* step is, before the multiplication by the scheduling indicator, open in the
\* acting agent's candidate mask in every instance; so the action recorded for an
\* instance is a station open in the mask the step started with where the
\* indicator is 1, and 0 where it is 0.
C14_SelectionIsOpen ==
    [][(pc = "agents" /\ a_pos <= Len(decision_agent_id)) =>
          LET a == decision_agent_id[a_pos]
          IN  /\ gather_all'
              /\ \A ns \in Instances :
                    /\ Last(tour_idx'[a])[ns] \in mask[a][ns] \cup {0}
                    /\ decision_mask_dict[a][ns] = 1 =>
                          Last(tour_idx'[a])[ns] \in mask[a][ns]
                    /\ decision_mask_dict[a][ns] = 0 => Last(tour_idx'[a])[ns] = 0]_vars

\* C14 witness: in evaluation mode an agent has acted on a mask that mask_fn does
\* not rewrite; it recorded an open boarding station where it was scheduled and 0,
\* which its mask has closed, where it was not.
C14_Witness ==
    /\ Acted
    /\ ~training
    /\ ~mask_fn_given
    /\ gather_all
    /\ \E ns \in Instances, ms \in Instances :
          /\ decision_mask_dict[Actor][ns] = 1
          /\ Last(tour_idx[Actor])[ns] # 0
          /\ Last(tour_idx[Actor])[ns] \in mask[Actor][ns]
          /\ decision_mask_dict[Actor][ms] = 0
          /\ Last(tour_idx[Actor])[ms] = 0
          /\ 0 \notin mask[Actor][ms]

\* C14 witness in training mode: an agent has recorded the station 0 that the
\* fallback opened in one instance and a boarding station in another.
C14_WitnessTraining ==
    /\ Acted
    /\ training
    /\ gather_all
    /\ \E ns \in Instances, ms \in Instances :
          /\ decision_mask_dict[Actor][ns] = 1
          /\ Last(tour_idx[Actor])[ns] # 0
          /\ decision_mask_dict[Actor][ms] = 1
          /\ mask_start_out[Actor][ms] = {}
          /\ Last(tour_idx[Actor])[ms] = 0

\* The agent that acted last in this tick, when another agent is about to act.
PrevActor == decision_agent_id[a_pos - 1]

\* C15: when an agent is about to run its policy step after another agent acted in
\* the same tick, its candidate mask is the result of a baseline refresh that read
\* the time-window mask and the agent's dynamic tensor as they are now, that is
\* with the earlier agent's update_tw, update_fn and broadcast applied: the
\* window of the station the earlier agent chose is closed in what the refresh
\* read, and the boarding slice it read is the earlier agent's.
C15_RefreshSeesEarlierAgents ==
    (AboutToAct /\ a_pos > 1) =>
        /\ mask_src[NextActor] = "mask_start"
        /\ refresh_inputs[NextActor] # NoInputs
        /\ refresh_inputs[NextActor][1] = dynamic_k[NextActor]
        /\ refresh_inputs[NextActor][2] = tw_mask
        /\ \A ns \in Instances :
              /\ refresh_inputs[NextActor][1][ns].board = dynamic_k[PrevActor][ns].board
              /\ \A r \in 1..TwRows :
                    Last(tour_idx[PrevActor])[ns] \notin refresh_inputs[NextActor][2][ns][r]

\* C15 witness: agent 2 is about to act after agent 1 chose a boarding station in
\* this tick and update_fn changed agent 1's boarding slice.
C15_Witness ==
    /\ AboutToAct
    /\ a_pos > 1
    /\ PrevActor \in ran
    /\ \E ns \in Instances :
          /\ Last(tour_idx[PrevActor])[ns] # 0
          /\ dynamic_k[PrevActor][ns].board # dynamic[PrevActor][ns].board
          /\ refresh_inputs[NextActor][1][ns].board = dynamic_k[PrevActor][ns].board

\* A policy step changed tensor k the way the claim allows: k is the actor (the
\* tensor is update_fn's result), or only the boarding slice changed, to the actor's.
ByStepOrBroadcast(k) ==
    /\ pc = "agents"
    /\ a_pos <= Len(decision_agent_id)
    /\ \/ k = decision_agent_id[a_pos] /\ update_fn_given
       \/ /\ k # decision_agent_id[a_pos]
          /\ \A ns \in Instances :
                dynamic_k'[k][ns] =
                    [dynamic_k[k][ns] EXCEPT
                        !.board = dynamic_k'[decision_agent_id[a_pos]][ns].board]

\* C16 as claimed: an agent's dynamic tensor changes only in a policy step, as the
\* actor's own update_fn result or by the broadcast of the actor's boarding slice.
C16_OnlyStepAndBroadcastWrite ==
    [][\A k \in Slots : dynamic_k'[k] # dynamic_k[k] => ByStepOrBroadcast(k)]_vars

\* C16 amended: an agent's dynamic tensor changes only (1) at the extraction that
\* opens a tick, which overwrites channel 5, in every instance with a non-empty
\* queue, with channel 10 of the head agent's tensor in the list update_od returned
\* last, (2) by being replaced with the tensor update_od returns, (3) in the agent's
\* own policy step, by update_fn's result, (4) by the broadcast of the boarding
\* slice of an acting peer.
C16_FourWriters ==
    [][\A k \in Slots :
          dynamic_k'[k] # dynamic_k[k] =>
              \/ ByStepOrBroadcast(k)
              \/ /\ pc = "update_od"
                 /\ dynamic_k'[k] = dynamic'[k]
              \/ /\ pc = "extract"
                 /\ \A ns \in Instances :
                       dynamic_k'[k][ns] =
                           IF decision_list[ns] = <<>> THEN dynamic_k[k][ns]
                           ELSE [dynamic_k[k][ns] EXCEPT
                                    !.ch5 = dynamic[decision_list[ns][1][2]][ns].ch10]]_vars

\* C16 witness: the extraction of a tick has just changed channel 5 of the tensor
\* of a slot outside the fleet, which never acts, in a rollout in which update_od
\* had replaced the tensors before.
C16_Witness ==
    /\ JustExtracted
    /\ record[1] # "input"
    /\ \E k \in Slots \ Fleet, ns \in Instances :
          dynamic_k[k][ns].ch5 # dynamic[k][ns].ch5

\* C17: the constraint records and the time-window mask change only by being
\* replaced with what a collaborator returned: update_od replaces the records and
\* leaves the time-window mask; a policy step replaces the time-window mask by
\* update_tw's result and leaves the records as the last collaborator it called
\* returned them (update_fn when given, update_tw otherwise); every other step,
\* the concatenation and return included, leaves both untouched.
C17_RecordsAndWindowsByCollaborators ==
    [][IF pc = "update_od"
       THEN record' = <<"update_od", 0>> /\ tw_mask' = tw_mask
       ELSE IF pc = "agents" /\ a_pos <= Len(decision_agent_id)
       THEN LET a == decision_agent_id[a_pos]
            IN  /\ record' = <<IF update_fn_given THEN "update_fn" ELSE "update_tw", a>>
                /\ tw_mask' \in UpdateTwResults(Last(tour_idx'[a]))
       ELSE record' = record /\ tw_mask' = tw_mask]_vars

\* C17 witness: a rollout without update_fn has returned; the records are those
\* update_tw returned in the last policy step, and the time-window mask is not
\* the initial one.
C17_Witness ==
    /\ pc = "done"
    /\ ~update_fn_given
    /\ record = <<"update_tw", agent_number - 1>>
    /\ tw_mask # InitTwMask

C19_BadDynamicSizeRaises ==
    /\ dynamic_size < 1 =>
          /\ pc \in {"init", "ValueError"}
          /\ ~submodules
          /\ step = 0
          /\ record = <<"input", 0>>
          /\ \A a \in Fleet : tour_idx[a] = <<>>
    /\ pc = "ValueError" => dynamic_size < 1

\* C19 witness: the constructor has raised the ValueError for a dynamic_size of 0.
C19_Witness ==
    /\ pc = "ValueError"
    /\ dynamic_size = 0
    /\ ~submodules

At(c, tag) == {i \in 1..Len(c) : c[i] = tag}
Before(c, t1, t2) == \A i \in At(c, t1), j \in At(c, t2) : i < j
StepTags == <<"select", "update_tw", "update_fn", "broadcast", "push", "mask_fn">>

\* C21: in every tick, for each agent that runs a policy step, the agent was
\* refreshed (mask_start and depot fallback) at least once before its selection
\* and never after it, and its selection, update_tw, update_fn, broadcast, queue
\* push and mask_fn happen once each, in that order (update_fn and mask_fn only
\* when they are given); an agent that runs no step has no call but refreshes.
C21_CallsInOrder ==
    \A a \in Fleet :
        LET c == calls[a]
        IN  IF a \in ran
            THEN /\ At(c, "mask_start") # {}
                 /\ Before(c, "mask_start", "select")
                 /\ \A i \in 1..6 :
                       Cardinality(At(c, StepTags[i])) =
                          IF \/ StepTags[i] = "update_fn" /\ ~update_fn_given
                             \/ StepTags[i] = "mask_fn" /\ ~mask_fn_given
                          THEN 0 ELSE 1
                 /\ \A i \in 1..6, j \in 1..6 :
                       i < j => Before(c, StepTags[i], StepTags[j])
            ELSE \A i \in 1..Len(c) : c[i] = "mask_start"

\* C21 witness: an agent refreshed twice (in the pre-pass and after an earlier
\* agent's step) has run its step with update_fn and mask_fn.
C21_Witness ==
    \E a \in ran :
        /\ Cardinality(At(calls[a], "mask_start")) >= 2
        /\ At(calls[a], "update_fn") # {}
        /\ At(calls[a], "mask_fn") # {}

\* C22: update_od is called exactly once per tick, after the extraction of the
\* tick and before any agent's policy step, and in no other place: the number of
\* update_od calls equals the number of ticks started, except between the
\* extraction of a tick and its update_od call, where it is one behind and no
\* agent has been refreshed or has run yet.
C22_UpdateOdOncePerTick ==
    [][/\ od_calls' = IF pc' = "update_od" THEN ticks' - 1 ELSE ticks'
       /\ pc' = "update_od" => (ran' = {} /\ \A a \in Fleet : calls'[a] = <<>>)
       /\ ran' # {} => od_calls' = ticks'
       /\ od_calls' # od_calls =>
             (pc = "update_od" /\ od_calls' = od_calls + 1 /\ ran' = ran)]_vars

\* C22 witness: in the second tick two agents have run their policy steps after
\* the second update_od call.
C22_Witness ==
    /\ ticks = 2
    /\ od_calls = 2
    /\ Cardinality(ran) >= 2

\* A queue in ascending order of scheduled time.
SortedByTime(q) == \A i \in 1..Len(q), j \in 1..Len(q) : i < j => q[i][1] <= q[j][1]

\* C23: whenever a tick is about to extract, every instance's queue is sorted by
\* scheduled time ascending; hence the queue copied by the extraction is sorted
\* and its first entry has the minimum scheduled time of the queue.
C23_QueueSortedAtExtraction ==
    /\ pc = "extract" => \A ns \in Instances : SortedByTime(decision_list[ns])
    /\ ticks >= 1 =>
          \A ns \in Instances :
              /\ SortedByTime(cy_decision_list[ns])
              /\ cy_decision_list[ns] # <<>> =>
                    cy_decision_list[ns][1][1] = MinTime(cy_decision_list[ns])

\* C23 witness: the queue copied in a later tick holds two entries pushed in the
\* previous tick in the opposite order: the agent with the larger id, pushed
\* last, has the smaller time and is at the head.
C23_Witness ==
    /\ JustExtracted
    /\ ticks >= 2
    /\ \E ns \in Instances :
          LET cy == cy_decision_list[ns]
          IN  /\ Len(cy) >= 2
              /\ cy[1][2] > cy[2][2]
              /\ cy[1][1] < cy[2][1]

\* The step under way is a baseline refresh of agent k.
RefreshOf(k) == pc \in {"prepass", "refresh"} /\ ag_id = k

\* C24: a baseline refresh leaves every row in which mask_start returned an open
\* station exactly as returned and turns every row returned closed into station
\* 0 only; and a station is opened in an agent's candidate mask only by that
\* agent's refresh, because mask_start returned it open or, for station 0,
\* because mask_start returned the row closed, or by the mask_fn result installed
\* at the end of that agent's own policy step.
C24_FallbackOnlyOnZeroRows ==
    [][\A k \in Slots, ns \in Instances :
          LET out == mask_start_out'[k][ns]
          IN  /\ RefreshOf(k) =>
                    /\ out # {} => mask'[k][ns] = out
                    /\ out = {} => mask'[k][ns] = {0}
              /\ \A s \in mask'[k][ns] \ mask[k][ns] :
                    \/ RefreshOf(k) /\ s \in out
                    \/ RefreshOf(k) /\ s = 0 /\ out = {}
                    \/ /\ pc = "agents"
                       /\ mask_fn_given
                       /\ a_pos <= Len(decision_agent_id)
                       /\ k = decision_agent_id[a_pos]]_vars

\* C24 witness: the refresh that follows an earlier agent's step returned, for a
\* later agent, one closed row, now station 0 only, and one row with an open
\* station, kept as returned with station 0 closed.
C24_Witness ==
    /\ pc = "agents"
    /\ a_pos > 1
    /\ \E k \in Fleet, ns \in Instances, ms \in Instances :
          /\ k > decision_agent_id[a_pos - 1]
          /\ mask_src[k] = "mask_start"
          /\ mask_start_out[k][ns] = {}
          /\ mask[k][ns] = {0}
          /\ mask_start_out[k][ms] # {}
          /\ 0 \notin mask[k][ms]
          /\ mask[k][ms] = mask_start_out[k][ms]

\* The rollout is about to start its first tick.
RolloutStart == pc = "extract" /\ ticks = 0

\* C25: at rollout start, for every agent slot and instance, the candidate mask
\* is open exactly at the stations 1 .. len(up_station) - 1, the activity mask is
\* open exactly at the stations other than 0, and each of the three rows of the
\* time-window mask has station 0 and every station at or beyond len(up_station)
\* closed.
C25_InitialMasks ==
    RolloutStart =>
        \A ns \in Instances :
            /\ \A k \in Slots, s \in Stations :
                  /\ s \in mask[k][ns] <=> (1 <= s /\ s < LenUp)
                  /\ s \in agent_mask[k][ns] <=> s # 0
            /\ DOMAIN tw_mask[ns] = 1..3
            /\ \A r \in DOMAIN tw_mask[ns], s \in Stations :
                  (s = 0 \/ s >= LenUp) => s \notin tw_mask[ns][r]

\* C25 witness: at rollout start a station beyond the boarding stations is closed
\* in a candidate mask that has open stations, and open in the activity mask.
C25_Witness ==
    /\ RolloutStart
    /\ \E k \in Fleet, ns \in Instances, s \in Stations :
          /\ s >= LenUp
          /\ s \notin mask[k][ns]
          /\ s \in agent_mask[k][ns]
          /\ mask[k][ns] # {}

\* C26: an agent that runs a policy step has not run in this tick yet and has a
\* larger id than every agent that has, and its step count grows by one; the
\* set of agents that have run is emptied only by the extraction of the next
\* tick; and outside the extraction no entry leaves a queue, no flag and no
\* queue copy changes, so an entry pushed in a tick stays in the queue until the
\* next tick extracts.
C26_OneStepEachInIdOrder ==
    [][/\ \A a \in Fleet :
             run_count'[a] # run_count[a] =>
                /\ run_count'[a] = run_count[a] + 1
                /\ a \notin ran
                /\ \A b \in ran : b < a
                /\ ran' = ran \cup {a}
       /\ \A a \in Fleet : run_count'[a] <= ticks'
       /\ pc # "extract" =>
             /\ ran \subseteq ran'
             /\ cy_decision_list' = cy_decision_list
             /\ decision_mask_dict' = decision_mask_dict
             /\ \A ns \in Instances :
                   /\ Len(decision_list'[ns]) >= Len(decision_list[ns])
                   /\ Entries(decision_list[ns]) \subseteq Entries(decision_list'[ns])]_vars

\* C26 witness: two agents have run in the tick and an entry pushed by one of
\* them is in the queue it was extracted from.
C26_Witness ==
    /\ pc = "agents"
    /\ Cardinality(ran) >= 2
    /\ \E a \in ran, ns \in Instances :
          /\ decision_mask_dict[a][ns] = 1
          /\ a \in AgentsIn(decision_list[ns])

\* Every agent id occurs at most once in every queue.
NoAgentTwice ==
    \A ns \in Instances :
        /\ Cardinality(AgentsIn(decision_list[ns])) = Len(decision_list[ns])
        /\ AgentsIn(decision_list[ns]) \subseteq Fleet
        /\ Len(decision_list[ns]) <= Cardinality(Fleet)

\* C27: in every reachable state each agent id occurs at most once in every
\* instance's queue, so no queue is longer than the fleet; and an entry is added
\* to a queue only by the policy step of an agent that was flagged, hence
\* extracted from that queue, in the same tick and is not in the queue.
C27_AgentAtMostOnceInQueue ==
    /\ NoAgentTwice
    /\ [][/\ NoAgentTwice'
          /\ \A ns \in Instances :
                \A e \in Entries(decision_list'[ns]) \ Entries(decision_list[ns]) :
                   /\ pc = "agents"
                   /\ a_pos <= Len(decision_agent_id)
                   /\ e[2] = decision_agent_id[a_pos]
                   /\ decision_mask_dict[e[2]][ns] = 1
                   /\ e[2] \notin AgentsIn(decision_list[ns])
                   /\ e[2] \in AgentsIn(cy_decision_list[ns])]_vars

\* C27 witness: in one tick every agent of a fleet of two or more was extracted
\* from an instance's queue and pushed back, so the queue is as long as the fleet.
C27_Witness ==
    /\ pc = "agents"
    /\ Cardinality(Fleet) >= 2
    /\ \E ns \in Instances :
          /\ Len(decision_list[ns]) = Cardinality(Fleet)
          /\ \A a \in Fleet : a \in ran /\ decision_mask_dict[a][ns] = 1

\* C28: once a tick has ended with an agent absent from an instance's queue, the
\* agent stays absent from that queue and is never flagged for that instance
\* again: the number of ticks in which it was scheduled stays what it was when
\* it left, and it records no further non-zero action for the instance.
C28_LeavingIsPermanent ==
    \A a \in Fleet, ns \in Instances :
        gone[a][ns] # None =>
            /\ a \notin AgentsIn(decision_list[ns])
            /\ sched_count[a][ns] = gone[a][ns]
            /\ NonZeroCount(a, ns) <= gone[a][ns]

\* C28 witness: an agent that left an instance's queue in an earlier tick has
\* run a policy step after a refresh in which mask_start returned a station
\* other than the depot open for that instance; it recorded action 0 and is not
\* in the queue.
C28_Witness ==
    /\ pc = "agents"
    /\ \E a \in ran, ns \in Instances :
          /\ gone[a][ns] # None
          /\ mask_start_out[a][ns] \ {0} # {}
          /\ Last(tour_idx[a])[ns] = 0
          /\ a \notin AgentsIn(decision_list[ns])

\* The queue of instance ns was empty when the current tick copied it.
EmptyAtTickStart(ns) == ticks >= 1 /\ cy_decision_list[ns] = <<>>

\* C29: an extraction that finds an instance's queue empty copies an empty queue
\* and flags no agent for the instance; and from a tick that started with the
\* queue empty on, every step keeps the queue empty, every later tick starts
\* with it empty, no agent is flagged for the instance and every action recorded
\* for it is 0.
C29_EmptyQueueAbsorbing ==
    [][\A ns \in Instances :
          /\ (ticks' # ticks /\ decision_list[ns] = <<>>) =>
                /\ EmptyAtTickStart(ns)'
                /\ decision_list'[ns] = <<>>
                /\ \A a \in Fleet : decision_mask_dict'[a][ns] = 0
          /\ EmptyAtTickStart(ns) =>
                /\ EmptyAtTickStart(ns)'
                /\ decision_list'[ns] = <<>>
                /\ \A a \in Fleet :
                      /\ decision_mask_dict'[a][ns] = 0
                      /\ tour_idx'[a] # tour_idx[a] => Last(tour_idx'[a])[ns] = 0]_vars

\* C29 witness: in a tick that started with one instance's queue empty and
\* another's not, an agent ran a policy step after mask_start returned a station
\* other than the depot open for the first instance, and recorded 0 for it.
C29_Witness ==
    /\ pc = "agents"
    /\ \E ns \in Instances, ms \in Instances, a \in ran :
          /\ EmptyAtTickStart(ns)
          /\ decision_list[ns] = <<>>
          /\ cy_decision_list[ms] # <<>>
          /\ mask_start_out[a][ns] \ {0} # {}
          /\ Last(tour_idx[a])[ns] = 0

\* The current tick started with every instance's queue empty.
AllQueuesEmptyTick == \A ns \in Instances : EmptyAtTickStart(ns)

\* C30: in a tick that started with every queue empty, update_od has run when
\* the termination check is made, the check passes whenever some activity-mask
\* entry of the ten slots is non-zero, the agents that run a policy step are
\* exactly the fleet agents for which the pre-pass call of mask_start returned an
\* open entry, and the tick is followed by another one as long as the step cap
\* is not reached.
C30_EmptyQueuesDoNotStopTheLoop ==
    [][AllQueuesEmptyTick =>
          /\ pc = "check" =>
                /\ od_calls = ticks
                /\ (\E k \in Slots, ns \in Instances : agent_mask[k][ns] # {}) =>
                      pc' \in {"check", "prepass", "agents"}
          /\ EndOfAgentLoop =>
                /\ ran = pre_open
                /\ pc' \in {"agents", "extract"}
          /\ (pc = "extract" /\ step < MaxSteps) =>
                (ticks' = ticks + 1 /\ AllQueuesEmptyTick')]_vars

\* C30 witness: every queue was empty when the second or a later tick started;
\* the tick passed the check after its update_od call and an agent has run its
\* policy step.
C30_Witness ==
    /\ AllQueuesEmptyTick
    /\ ticks >= 2
    /\ od_calls = ticks
    /\ pc = "agents"
    /\ ran # {}

\* ------------------------------------------------------------ claims C31-C35
\* The loop was left by the break: the last tick started was not completed.
Broke == pc \in {"concat", "done", "error"} /\ ticks > step

\* C31: the extraction and the update_od call of a tick leave the activity masks
\* as the previous tick left them, and the loop breaks only at the termination
\* check that follows them, with every activity mask zero; after a break, and in
\* what is then returned, update_od has been called in the breaking tick, the
\* dynamic tensors and the records are those it returned, every queue that was
\* not empty has lost exactly the entries tied at its minimum time, and no agent
\* was refreshed and none ran a policy step in that tick.
C31_BreakAfterExtractionAndUpdateOd ==
    [][/\ pc \in {"extract", "update_od"} => agent_mask' = agent_mask
       /\ (pc' = "concat" /\ pc # "concat") =>
             /\ pc = "check"
             /\ \A k \in Slots, ns \in Instances : agent_mask[k][ns] = {}
       /\ Broke' =>
             /\ od_calls' = ticks'
             /\ record' = <<"update_od", 0>>
             /\ dynamic_k' = dynamic'
             /\ ran' = {}
             /\ \A a \in Fleet : calls'[a] = <<>>
             /\ \A ns \in Instances :
                   LET cy == cy_decision_list'[ns]
                       q == decision_list'[ns]
                   IN  cy # <<>> =>
                         /\ Len(q) = Len(cy) - Cardinality(TiedAtMin(cy))
                         /\ Entries(q) = {e \in Entries(cy) : e[1] > MinTime(cy)}]_vars

\* C31 witness: a rollout that broke in its second or a later tick has returned;
\* the breaking tick extracted a cohort of two or more agents.
C31_Witness ==
    /\ Broke
    /\ pc = "done"
    /\ ticks >= 2
    /\ \E ns \in Instances :
          Len(cy_decision_list[ns]) - Len(decision_list[ns]) >= 2

\* C32: at any moment, for every agent of the fleet, the action sequence and the
\* log-probability sequence have the same length and every element of either has
\* one entry per instance of the batch; the length is the number of ticks whose
\* pre-pass refresh returned the agent's candidate mask, before the depot
\* fallback, with an open entry in some instance, less the current tick while
\* the agent's step in it is still to come.
C32_LengthIsOpenTicks ==
    \A a \in Fleet :
        /\ Len(tour_idx[a]) = Len(tour_logp[a])
        /\ \A i \in 1..Len(tour_idx[a]) :
              /\ DOMAIN tour_idx[a][i] = Instances
              /\ DOMAIN tour_logp[a][i] = Instances
        /\ Len(tour_idx[a]) =
              open_ticks[a] - (IF a \in pre_open \ ran THEN 1 ELSE 0)
        /\ open_ticks[a] <= ticks

\* C32 witness: a rollout of two ticks has returned; one agent ran in one tick
\* only, its refreshed mask being closed in the whole batch in the other, and
\* another agent ran in both.
C32_Witness ==
    /\ pc = "done"
    /\ ticks = 2
    /\ \E a \in Fleet, b \in Fleet :
          /\ Len(tour_idx[a]) = 1
          /\ Len(tour_logp[a]) = 1
          /\ Len(tour_idx[b]) = 2

\* C33: when an agent runs its policy step, in every instance in which its flag
\* is 0 the action recorded and the action handed to update_tw, update_fn and
\* mask_fn is 0, the queue and the agent's tour history of the instance are left
\* as they were, and the agent's next decoder input for the instance is station
\* 0's, whatever station it selected and whatever it chose before.
C33_UnflaggedStepIsIdle ==
    [][(pc = "agents" /\ a_pos <= Len(decision_agent_id)) =>
          LET a == decision_agent_id[a_pos]
          IN  \A ns \in Instances :
                 decision_mask_dict[a][ns] = 0 =>
                    /\ Last(tour_idx'[a])[ns] = 0
                    /\ passed'.tw[ns] = 0
                    /\ update_fn_given => passed'.fn[ns] = 0
                    /\ mask_fn_given => passed'.mf[ns] = 0
                    /\ decision_list'[ns] = decision_list[ns]
                    /\ tour_idx_dict'[a][ns] = tour_idx_dict[a][ns]
                    /\ decoder_input'[a][ns] = 0]_vars

\* C33 witness: an agent whose previous action for an instance was a station
\* other than the depot has run a step in which it was not flagged for that
\* instance although mask_start had returned such a station open; update_tw,
\* update_fn and mask_fn received 0 and its decoder input is station 0's.
C33_Witness ==
    /\ Acted
    /\ \E a \in {Actor}, ns \in Instances :
          /\ decision_mask_dict[a][ns] = 0
          /\ Len(tour_idx[a]) >= 2
          /\ tour_idx[a][Len(tour_idx[a]) - 1][ns] # 0
          /\ Last(tour_idx[a])[ns] = 0
          /\ mask_start_out[a][ns] \ {0} # {}
          /\ passed.tw[ns] = 0
          /\ passed.fn # NoInputs
          /\ passed.mf # NoInputs
          /\ decoder_input[a][ns] = 0

\* C34 as claimed: right after the extraction of a tick, in every instance whose
\* copied queue is not empty, channel 5 of every agent's dynamic tensor holds
\* channel 10 of the current dynamic tensor of the agent at the head of the
\* copied queue.
C34_Channel5IsHeadsCurrentTime ==
    JustExtracted =>
        \A ns \in Instances :
            cy_decision_list[ns] # <<>> =>
                \A k \in Slots :
                    dynamic_k[k][ns].ch5 =
                        dynamic_k[cy_decision_list[ns][1][2]][ns].ch10

\* C35: once the loop is over, by the break or by the step cap, the rollout ends
\* in an error, and returns nothing, if some agent of the fleet ran no policy
\* step; it returns only when every agent of the fleet ran at least one, and it
\* ends in an error for no other reason.
C35_NoStepNoReturn ==
    [][/\ ( /\ pc = "concat" \/ (pc = "extract" /\ step = MaxSteps)
            /\ \E a \in Fleet : run_count[a] = 0 ) => pc' = "error"
       /\ pc' = "done" =>
             \A a \in Fleet : run_count'[a] >= 1 /\ tour_idx'[a] # <<>>
       /\ pc' = "error" =>
             \E a \in Fleet : run_count'[a] = 0 /\ tour_idx'[a] = <<>>]_vars

\* C35 witness: the step cap was reached and the rollout ended in an error; one
\* agent ran in some tick, another was refreshed with a closed mask in every tick
\* and never ran.
C35_Witness ==
    /\ pc = "error"
    /\ step = MaxSteps
    /\ \E a \in Fleet, b \in Fleet :
          /\ run_count[a] = 0
          /\ open_ticks[a] = 0
          /\ run_count[b] >= 1

====
